---- MODULE Spec2Model ----
(***************************************************************************)
(* mdbook-diagrams: the pre-render pipeline of DiagramsPreprocessor        *)
(* (src/src/lib.rs).  A run walks the book, creates one collection task    *)
(* per mermaid block, joins the tasks, removes unreferenced cache files    *)
(* and applies the edits to the chapters.  MermaidPreprocessor::run        *)
(* (src/src/main.rs), the preprocessor of the binary, is modelled beside   *)
(* it under SpecMermaid.                                                   *)
(*                                                                         *)
(* Text is a sequence of one-character strings, so a byte range of the     *)
(* source is a range of indices (all modelled text is ASCII).  Two values  *)
(* are kept opaque and count as one element of a text: the hex digest of   *)
(* a fingerprint and the message of an I/O error.                          *)
(***************************************************************************)
EXTENDS Integers, Sequences, FiniteSets, TLC

VARIABLES
    input,            \* the book as received from the host (never changes)
    book,             \* book: &mut Book, the tree the run mutates
    enable_cache,     \* DiagramsPreprocessor.enable_cache
    num_cpus,         \* available_parallelism() of the host
    run,              \* number of the current run (runs share the cache dir)
    pc,               \* position of the run inside async_process_book
    futures,          \* all_futures: one entry per located block
    tpc,              \* position of each collection task
    proc,             \* state of the renderer subprocess each task spawned
    permits,          \* available permits of the semaphore
    results,          \* output of each finished task (Result<ChapterEdit>)
    completion,       \* task indices in the order the tasks finished
    hist,             \* per task: what the task observed and did
    files,            \* names of the entries of generated/diagrams
    intact,           \* entries fully written by a renderer that exited 0
    edits,            \* edits: Vec<ChapterEdit> after the join
    gc,               \* outcome of cleanup_unreferenced_files of this run
    ret,              \* what Preprocessor::run returned to the host
    dir0,             \* entries of generated/diagrams when the run began
    prev,             \* summary of the previous run
    pure,             \* operands and results of the pure-function checks
    mp                \* state of MermaidPreprocessor::run (src/src/main.rs)

vars == <<input, book, enable_cache, num_cpus, run, pc, futures, tpc, proc,
          permits, results, completion, hist, files, intact, edits, gc, ret,
          dir0, prev, pure, mp>>

-----------------------------------------------------------------------------
(* Bounds of the model.                                                    *)

\* Largest number of processing units a host of the model has.
MaxCpus == 2
\* Number of consecutive runs over the same cache directory.
MaxRuns == 2
\* Largest number of entries remove_file fails on in one cleanup.
MaxRemoveFailures == 1
\* Longest text and largest number of edits of the apply-phase check.
MaxTextLen == 5
MaxEdits == 3

-----------------------------------------------------------------------------
(* Text helpers.                                                           *)

RECURSIVE Flatten(_)
Flatten(ss) == IF ss = <<>> THEN <<>> ELSE Head(ss) \o Flatten(Tail(ss))

\* s[from .. to-1] with 0-based, end-exclusive offsets, as a Rust range.
Slice(s, from, to) == SubSeq(s, from + 1, to)

\* Whether lit occurs in s at 0-based offset at.
LitAt(s, at, lit) ==
    /\ at + Len(lit) <= Len(s)
    /\ \A k \in 1..Len(lit) : s[at + k] = lit[k]

\* The backtick is written "'" in the model: a string of the module cannot
\* hold a backtick.
Tick == "'"
Backticks == <<Tick, Tick, Tick>>
OpenFence == Backticks \o <<"m", "e", "r", "m", "a", "i", "d">>
CR == "\r"
LF == "\n"

\* The characters of a text joined into one string (an opaque element).
RECURSIVE Str(_)
Str(s) == IF s = <<>> THEN "" ELSE Head(s) \o Str(Tail(s))

-----------------------------------------------------------------------------
(* mermaid_re = ```mermaid\r?\n([\s\S]*?)\r?\n```  and captures_iter.      *)

\* Offset just after the \r?\n that must follow at offset at, or -1.
AfterNewline(text, at) ==
    IF LitAt(text, at, <<CR, LF>>) THEN at + 2
    ELSE IF LitAt(text, at, <<LF>>) THEN at + 1
    ELSE -1

\* Offset just after \r?\n``` when that closes a block at offset at, or -1.
ClosingAt(text, at) ==
    LET n == AfterNewline(text, at)
    IN  IF n >= 0 /\ LitAt(text, n, Backticks) THEN n + 3 ELSE -1

\* The lazy body [\s\S]*? ends at the first offset where the closing matches.
RECURSIVE LazyBodyEnd(_, _)
LazyBodyEnd(text, at) ==
    IF at > Len(text) THEN -1
    ELSE IF ClosingAt(text, at) >= 0 THEN at
    ELSE LazyBodyEnd(text, at + 1)

\* The match of mermaid_re that starts exactly at offset at (or ok = FALSE).
MatchAt(text, at) ==
    LET body == IF LitAt(text, at, OpenFence)
                THEN AfterNewline(text, at + Len(OpenFence)) ELSE -1
        stop == IF body >= 0 THEN LazyBodyEnd(text, body) ELSE -1
    IN  IF stop < 0 THEN [ok |-> FALSE]
        ELSE [ok |-> TRUE, start |-> at, end |-> ClosingAt(text, stop),
              group1 |-> Slice(text, body, stop),
              group0 |-> Slice(text, at, ClosingAt(text, stop))]

\* captures_iter: the leftmost match from offset from, then the matches after
\* its end (a match is never empty, so the scan always advances).
RECURSIVE captures_iter(_, _)
captures_iter(text, from) ==
    IF from >= Len(text) THEN <<>>
    ELSE LET m == MatchAt(text, from)
         IN  IF m.ok THEN <<m>> \o captures_iter(text, m.end)
             ELSE captures_iter(text, from + 1)

-----------------------------------------------------------------------------
(* Fingerprint and artifact names.                                         *)

Svg == <<"s", "v", "g">>
Png == <<"p", "n", "g">>
Mmdc == <<"m", "m", "d", "c">>

\* Sha256 over the bytes fed to the hasher.  The digest is taken to be free
\* of collisions: it is identified with the bytes it was computed from.
Sha256(bytes) == "sha256(" \o Str(bytes) \o ")"

\* The three update() calls feed the fields one after the other.
HasherInput(content, output_format, mmdc_cmd) ==
    content \o output_format \o mmdc_cmd

\* format!("{:x}", result): the digest in hex, one opaque element of a name.
compute_cache_hash(content, output_format, mmdc_cmd) ==
    Sha256(HasherInput(content, output_format, mmdc_cmd))

\* format!("{}.{}", cache_hash, self.output_format)
OutputFilename(cache_hash, output_format) ==
    <<cache_hash, ".">> \o output_format

-----------------------------------------------------------------------------
(* The book: a tree of BookItems.  A chapter owns its path (an Option), its *)
(* content and its sub_items; other items (separators, part titles) carry   *)
(* no text.                                                                 *)

None == [some |-> FALSE, val |-> <<>>]
Some(p) == [some |-> TRUE, val |-> p]

Chapter(path, content, sub_items) ==
    [kind |-> "Chapter", path |-> path, content |-> content,
     sub_items |-> sub_items]
Separator == [kind |-> "Separator"]

\* chapter.path.clone().unwrap_or_default(): no path gives the empty PathBuf.
unwrap_or_default(path) == IF path.some THEN path.val ELSE <<>>

\* Number of components of the parent directory of the chapter's path.
num_parent_dirs(path) ==
    IF path.some /\ Len(path.val) > 0 THEN Len(path.val) - 1 ELSE 0

ImgOpen == <<"!", "[", "d", "i", "a", "g", "r", "a", "m", "]", "(", ".", "/">>
GeneratedDiagrams ==
    <<"g", "e", "n", "e", "r", "a", "t", "e", "d", "/",
      "d", "i", "a", "g", "r", "a", "m", "s", "/">>

\* relative_output_path: one ".." per parent directory, then
\* generated/diagrams/<output_filename>.
relative_output_path(path, output_filename) ==
    Flatten([i \in 1..num_parent_dirs(path) |-> <<".", ".", "/">>])
        \o GeneratedDiagrams \o output_filename

\* format!("![diagram](./{})", relative_output_path)
img_tag(path, output_filename) ==
    ImgOpen \o relative_output_path(path, output_filename) \o <<")">>

ErrOpen ==
    <<"<", "!", "-", "-", " ", "E", "r", "r", "o", "r", " ", "g", "e", "n",
      "e", "r", "a", "t", "i", "n", "g", " ", "d", "i", "a", "g", "r", "a",
      "m", ":", " ">>
ErrClose == <<" ", "-", "-", ">", LF>>

\* First line of the message of each error a render can end with.
ErrorLine(kind) ==
    CASE kind = "spawn" -> "No such file or directory (os error 2)"
      [] kind = "io" -> "Broken pipe (os error 32)"
      [] kind = "exit" -> "mmdc failed: exit status: 1"
      [] OTHER -> "semaphore closed"

\* format!("<!-- Error generating diagram: {} -->\n{}", first line, block)
error_comment(kind, original_block) ==
    ErrOpen \o <<ErrorLine(kind)>> \o ErrClose \o original_block

\* The ChapterEdit a task builds: a cache hit and a successful render give the
\* image tag and name the artifact; a failed render gives the comment.
ChapterEdit(chapter_path, range, new_string, cached_filename) ==
    [chapter_path |-> chapter_path, range |-> range,
     new_string |-> new_string, cached_filename |-> cached_filename]

\* One future of collect_edits_from_chapter: what the closure captured.
FutureOf(chapter, unit, m, output_format, mmdc_cmd) ==
    LET name == OutputFilename(
                    compute_cache_hash(m.group1, output_format, mmdc_cmd),
                    output_format)
    IN  [unit |-> unit,
         chapter_path |-> unwrap_or_default(chapter.path),
         range |-> [start |-> m.start, end |-> m.end],
         mermaid_code |-> m.group1,
         original_block |-> m.group0,
         output_filename |-> name,
         img_tag |-> img_tag(chapter.path, name)]

collect_edits_from_chapter(chapter, unit, output_format, mmdc_cmd) ==
    LET caps == captures_iter(chapter.content, 0)
    IN  [i \in 1..Len(caps) |->
            FutureOf(chapter, unit, caps[i], output_format, mmdc_cmd)]

\* The walk without the loop over sub_items.
collect_edits_without_sub_items(item, unit, output_format, mmdc_cmd) ==
    IF item.kind # "Chapter" THEN <<>>
    ELSE collect_edits_from_chapter(item, unit, output_format, mmdc_cmd)

\* The chapter's own blocks, then those of its sub items in order; an item
\* that is no chapter gives nothing.  unit is the item's position in the tree.
RECURSIVE collect_edits_from_book_item_recursively(_, _, _, _)
collect_edits_from_book_item_recursively(item, unit, output_format, mmdc_cmd) ==
    IF item.kind # "Chapter" THEN <<>>
    ELSE collect_edits_from_chapter(item, unit, output_format, mmdc_cmd)
         \o Flatten([i \in 1..Len(item.sub_items) |->
                collect_edits_from_book_item_recursively(
                    item.sub_items[i], Append(unit, i),
                    output_format, mmdc_cmd)])

\* The loop over book.sections of async_process_book.
AllFutures(sections, output_format, mmdc_cmd) ==
    Flatten([i \in 1..Len(sections) |->
        collect_edits_from_book_item_recursively(
            sections[i], <<i>>, output_format, mmdc_cmd)])

-----------------------------------------------------------------------------
(* The join, the grouping and the apply phase.                             *)

\* The outputs in the order the tasks finished in.
JoinAllAsCompleted(outs, order) ==
    LET kept == SelectSeq(order, LAMBDA t : outs[t].ok)
    IN  [i \in 1..Len(kept) |-> outs[kept[i]].edit]

\* join_all gives the outputs in the order of the futures, whatever the order
\* the tasks finished in; filter_map keeps the Ok ones.
JoinAll(outs, order) ==
    LET kept == SelectSeq(outs, LAMBDA r : r.ok)
    IN  [i \in 1..Len(kept) |-> kept[i].edit]

\* referenced_files: the non-empty cached_filename of the edits.
ReferencedFiles(es) ==
    {es[i].cached_filename : i \in DOMAIN es} \ {<<>>}

\* edits_by_chapter: the edits of each chapter_path, in the order of edits.
GroupByChapter(es) ==
    [k \in {es[i].chapter_path : i \in DOMAIN es} |->
        SelectSeq(es, LAMBDA e : e.chapter_path = k)]

\* e placed into the sorted sequence es behind every edit whose key is not
\* larger (sort_by_key is stable).
RECURSIVE InsertByStart(_, _)
InsertByStart(es, e) ==
    IF es = <<>> THEN <<e>>
    ELSE IF Head(es).range.start <= e.range.start
         THEN <<Head(es)>> \o InsertByStart(Tail(es), e)
         ELSE <<e>> \o es

RECURSIVE SortByStart(_)
SortByStart(es) ==
    IF es = <<>> THEN <<>>
    ELSE InsertByStart(SortByStart(SubSeq(es, 1, Len(es) - 1)), es[Len(es)])

Reverse(es) == [i \in 1..Len(es) |-> es[Len(es) + 1 - i]]

\* The sort without the reverse(): the edits in ascending order.
SortedEditsAscending(es) == SortByStart(es)

\* sorted_edits: sort_by_key(range.start), then reverse().
SortedEdits(es) == Reverse(SortByStart(es))

\* String::replace_range panics when the range does not lie in the string.
replace_range(text, range, new_string) ==
    IF range.start > range.end \/ range.end > Len(text)
    THEN [panic |-> TRUE, text |-> text]
    ELSE [panic |-> FALSE,
          text |-> Slice(text, 0, range.start) \o new_string
                   \o Slice(text, range.end, Len(text))]

\* The loop over sorted_edits; a panic ends it.
RECURSIVE ApplySorted(_, _)
ApplySorted(text, es) ==
    IF es = <<>> THEN [panic |-> FALSE, text |-> text]
    ELSE LET r == replace_range(text, Head(es).range, Head(es).new_string)
         IN  IF r.panic THEN r ELSE ApplySorted(r.text, Tail(es))

\* edits_by_chapter.remove(&chapter_path)
MapRemove(map, k) == [x \in DOMAIN map \ {k} |-> map[x]]

\* apply_edits_to_book_item_recursively on one item: the item after the call,
\* what is left of edits_by_chapter, and whether the call panicked.
RECURSIVE apply_edits_to_book_item_recursively(_, _)
RECURSIVE ApplyToItems(_, _)
apply_edits_to_book_item_recursively(item, map) ==
    IF item.kind # "Chapter" THEN [panic |-> FALSE, item |-> item, map |-> map]
    ELSE LET key == unwrap_or_default(item.path)
             own == IF key \in DOMAIN map
                    THEN ApplySorted(item.content, SortedEdits(map[key]))
                    ELSE [panic |-> FALSE, text |-> item.content]
             rest == IF key \in DOMAIN map THEN MapRemove(map, key) ELSE map
         IN  IF own.panic
             THEN [panic |-> TRUE, item |-> item, map |-> rest]
             ELSE LET subs == ApplyToItems(item.sub_items, rest)
                  IN  [panic |-> subs.panic,
                       item |-> [item EXCEPT !.content = own.text,
                                             !.sub_items = subs.items],
                       map |-> subs.map]

\* A loop over items (book.sections, or the sub_items of a chapter).
ApplyToItems(items, map) ==
    IF items = <<>> THEN [panic |-> FALSE, items |-> <<>>, map |-> map]
    ELSE LET first == apply_edits_to_book_item_recursively(Head(items), map)
         IN  IF first.panic
             THEN [panic |-> TRUE, items |-> items, map |-> first.map]
             ELSE LET more == ApplyToItems(Tail(items), first.map)
                  IN  [panic |-> more.panic,
                       items |-> <<first.item>> \o more.items,
                       map |-> more.map]

-----------------------------------------------------------------------------
(* cleanup_unreferenced_files.                                             *)

\* A name that is not valid Unicode: file_name().into_string() fails on it.
NotUnicodeName == <<"\\xff", ".", "s", "v", "g">>
into_string_ok(name) == name # NotUnicodeName

\* The loop without the test against referenced_files.
UnreferencedUnchecked(dir, referenced_files) ==
    {n \in dir : into_string_ok(n) /\ n # <<>>}

\* The entries the loop tries to remove.
Unreferenced(dir, referenced_files) ==
    {n \in dir : into_string_ok(n) /\ n \notin referenced_files /\ n # <<>>}

\* The policy of clearing the whole directory.
AfterClearAll(dir, referenced_files, failing) == {}

\* The directory after the loop, when remove_file fails on the entries of
\* failing and succeeds on the others.
AfterCleanup(dir, referenced_files, failing) ==
    dir \ (Unreferenced(dir, referenced_files) \ failing)

-----------------------------------------------------------------------------
(* The inputs of the model.                                                *)

\* The resolved configuration: the defaults of DiagramsPreprocessor::new.
output_format == Svg
mmdc_cmd == Mmdc

Block(code) == OpenFence \o <<LF>> \o code \o <<LF>> \o Backticks
BlockCrLf(code) == OpenFence \o <<CR, LF>> \o code \o <<CR, LF>> \o Backticks

CodeA == <<"A">>
CodeB == <<"B", "-", "-", ">", "C">>
\* A source long enough for its block to be longer than an image tag.
CodeLong == [i \in 1..30 |-> "x"]

\* One chapter, three blocks of different sources and lengths.
BookThree ==
    <<Chapter(Some(<<"ch1.md">>),
          <<"#", LF>> \o Block(CodeA) \o <<LF>> \o BlockCrLf(CodeLong)
              \o <<LF, "t", LF>> \o Block(CodeB) \o <<LF>>,
          <<>>)>>

\* A chapter with a nested chapter in a sub directory, a separator, and a
\* chapter without any block.
BookNested ==
    <<Chapter(Some(<<"a.md">>), Block(CodeA) \o <<LF>>,
          <<Chapter(Some(<<"sub", "b.md">>), <<"b", LF>> \o Block(CodeB),
                <<>>)>>),
      Separator,
      Chapter(Some(<<"c.md">>), <<"c", LF>>, <<>>)>>

\* Two chapters listed under the same path, with the same content.
BookSamePath ==
    <<Chapter(Some(<<"dup.md">>), <<"d", LF>> \o Block(CodeLong), <<>>),
      Chapter(Some(<<"dup.md">>), <<"d", LF>> \o Block(CodeLong), <<>>)>>

\* Two chapters without a path (drafts) that both hold a block.
BookNoPath ==
    <<Chapter(None, Block(CodeA) \o <<LF, LF, LF>>, <<>>),
      Chapter(None, <<"n">> \o Block(CodeB), <<>>)>>

\* A chapter without a path and without a block, in front of a chapter
\* without a path that holds one.
BookDraftFirst ==
    <<Chapter(None,
          <<"d", "r", "a", "f", "t", " ", "n", "o", "t", "e", "s", " ", "o",
            "f", " ", "t", "h", "e", ".", LF>>,
          <<>>),
      Chapter(None, Block(CodeA), <<>>)>>

\* One chapter in which an opening fence without a closing one of its own
\* stands in front of two blocks: the first match ends at the fence that
\* opens the next block.
BookOverlap ==
    <<Chapter(Some(<<"o.md">>),
          OpenFence \o <<LF, "X", LF>> \o Block(CodeA) \o <<LF>>
              \o Block(CodeB),
          <<>>)>>

\* One chapter that shows the same diagram twice.
BookTwice ==
    <<Chapter(Some(<<"t.md">>), Block(CodeA) \o <<LF>> \o Block(CodeA),
          <<>>)>>

Books ==
    {BookThree, BookNested, BookSamePath, BookNoPath, BookDraftFirst,
     BookOverlap, BookTwice}

\* An entry of the cache directory that no block of any book refers to.
StaleName == <<"stale", ".", "s", "v", "g">>
\* The cache directory a run can find: empty, holding entries no block
\* refers to, or holding the artifact of the first block of the book as well.
InitialDirs(sections) ==
    LET fs == AllFutures(sections, output_format, mmdc_cmd)
    IN  {{}, {StaleName, NotUnicodeName}}
        \cup {{StaleName, fs[1].output_filename} : x \in {1} \cap DOMAIN fs}

-----------------------------------------------------------------------------
(* State of a run.                                                         *)

Tasks == DOMAIN futures

NoEdit == ChapterEdit(<<>>, [start |-> 0, end |-> 0], <<>>, <<>>)
Pending == [ok |-> FALSE, edit |-> NoEdit]
Ok(edit) == [ok |-> TRUE, edit |-> edit]
Err(edit) == [ok |-> FALSE, edit |-> edit]

NoHist == [saw_file |-> FALSE, hit |-> FALSE, acquired |-> FALSE,
           spawned |-> FALSE, outcome |-> "none"]
NoGc == [ran |-> FALSE, listed |-> FALSE, failed |-> {}]
NoPrev == [valid |-> FALSE, book |-> <<>>, spawns |-> 0, files |-> {},
           cold |-> FALSE]
NoPure == [kind |-> "none"]
NoMp == [pc |-> "off"]

\* The renderer subprocesses that were spawned and have not exited.
Running == {t \in Tasks : proc[t] \in {"running", "writing"}}

\* Number of renderer subprocesses spawned by the tasks of this run.
Spawns == Cardinality({t \in Tasks : hist[t].spawned})

Init ==
    /\ input \in Books
    /\ book = input
    /\ enable_cache \in BOOLEAN
    /\ num_cpus \in 1..MaxCpus
    /\ run = 1
    /\ pc = "start"
    /\ futures = <<>>
    /\ tpc = <<>>
    /\ proc = <<>>
    /\ permits = 0
    /\ results = <<>>
    /\ completion = <<>>
    /\ hist = <<>>
    /\ files \in InitialDirs(input)
    /\ intact = files \ {StaleName, NotUnicodeName}
    /\ edits = <<>>
    /\ gc = NoGc
    /\ ret = "none"
    /\ dir0 = files
    /\ prev = NoPrev
    /\ pure = NoPure
    /\ mp = NoMp

-----------------------------------------------------------------------------
(* The collection tasks.  join_all polls the futures in their order on the *)
(* thread of block_on, so a task runs from one await to the next without   *)
(* another task in between; the renderer subprocesses run beside them.     *)

\* The check left out: every block is rendered.
CacheHitNever(f, dir, cache_on) == FALSE

\* The check without the test of enable_cache.
CacheHitIgnoringFlag(f, dir, cache_on) == f.output_filename \in dir

\* if enable_cache && output_filepath.exists()
CacheHit(f, dir, cache_on) == cache_on /\ f.output_filename \in dir

\* The closure with the error of the inner block propagated as Err.
TaskOutputPropagating(f, outcome) ==
    IF outcome \in {"hit", "rendered"}
    THEN Ok(ChapterEdit(f.chapter_path, f.range, f.img_tag, f.output_filename))
    ELSE Err(ChapterEdit(f.chapter_path, f.range,
                         error_comment(outcome, f.original_block), <<>>))

\* The Result the closure returns for each way a task can end: a hit and a
\* successful render give the image tag and name the artifact, every error
\* of the inner block is turned into an Ok edit that keeps the block.
TaskOutput(f, outcome) ==
    IF outcome \in {"hit", "rendered"}
    THEN Ok(ChapterEdit(f.chapter_path, f.range, f.img_tag, f.output_filename))
    ELSE Ok(ChapterEdit(f.chapter_path, f.range,
                        error_comment(outcome, f.original_block), <<>>))

\* Semaphore::new(num_cpus)
SemaphoreSize(cpus) == cpus

\* A spawn error that leaves the function with the permit forgotten.
KeepsPermitOnSpawnError(outcome) == outcome # "spawn"

\* Whether the task that ends with the error `outcome` returns its permit
\* (_permit is dropped when the inner block is left, on every path).
ReleasesPermit(outcome) == TRUE

\* Task t ends with `outcome`: its output is stored, its position is "done".
Complete(t, outcome, h) ==
    /\ results' = [results EXCEPT ![t] = TaskOutput(futures[t], outcome)]
    /\ tpc' = [tpc EXCEPT ![t] = "done"]
    /\ completion' = Append(completion, t)
    /\ hist' = [hist EXCEPT ![t] = [h EXCEPT !.outcome = outcome]]

\* acquire() returned a permit: command.spawn() runs in the same poll.
AcquireAndSpawn(t, spawn_ok, h) ==
    LET h2 == [h EXCEPT !.acquired = TRUE]
    IN  IF spawn_ok
        THEN /\ proc' = [proc EXCEPT ![t] = "running"]
             /\ tpc' = [tpc EXCEPT ![t] = "wait"]
             /\ permits' = permits - 1
             /\ hist' = [hist EXCEPT ![t] = [h2 EXCEPT !.spawned = TRUE]]
             /\ UNCHANGED <<results, completion>>
        ELSE /\ Complete(t, "spawn", h2)
             /\ permits' = IF ReleasesPermit("spawn") THEN permits
                           ELSE permits - 1
             /\ UNCHANGED proc

\* create_dir_all, the semaphore and the walk that creates the futures.
Begin ==
    /\ pc = "start"
    /\ \E dir_ok \in BOOLEAN :
        IF dir_ok
        THEN LET fs == AllFutures(book, output_format, mmdc_cmd)
             IN  /\ futures' = fs
                 /\ tpc' = [t \in DOMAIN fs |-> "start"]
                 /\ proc' = [t \in DOMAIN fs |-> "none"]
                 /\ results' = [t \in DOMAIN fs |-> Pending]
                 /\ hist' = [t \in DOMAIN fs |-> NoHist]
                 /\ permits' = SemaphoreSize(num_cpus)
                 /\ pc' = "collect"
                 /\ UNCHANGED ret
        ELSE /\ pc' = "done"
             /\ ret' = "Err"
             /\ UNCHANGED <<futures, tpc, proc, results, hist, permits>>
    /\ UNCHANGED <<input, book, enable_cache, num_cpus, run, completion,
                   files, intact, edits, gc, dir0, prev, pure, mp>>

\* First poll of task t, after the first poll of every task before it: the
\* cache check, then acquire(), which is ready at once when a permit is free.
Poll(t) ==
    /\ pc = "collect"
    /\ tpc[t] = "start"
    /\ \A s \in Tasks : s < t => tpc[s] # "start"
    /\ LET f == futures[t]
           h == [hist[t] EXCEPT !.saw_file = f.output_filename \in files]
       IN  IF CacheHit(f, files, enable_cache)
           THEN /\ Complete(t, "hit", [h EXCEPT !.hit = TRUE])
                /\ UNCHANGED <<proc, permits>>
           ELSE IF permits > 0
           THEN \E spawn_ok \in BOOLEAN : AcquireAndSpawn(t, spawn_ok, h)
           ELSE /\ tpc' = [tpc EXCEPT ![t] = "acquire"]
                /\ hist' = [hist EXCEPT ![t] = h]
                /\ UNCHANGED <<proc, permits, results, completion>>
    /\ UNCHANGED <<input, book, enable_cache, num_cpus, run, pc, futures,
                   files, intact, edits, gc, ret, dir0, prev, pure, mp>>

\* A permit was returned and task t is the first of the waiting tasks (the
\* semaphore serves its waiters in the order they arrived).
Wake(t) ==
    /\ pc = "collect"
    /\ tpc[t] = "acquire"
    /\ permits > 0
    /\ \A s \in Tasks : s < t => tpc[s] # "acquire"
    /\ \E spawn_ok \in BOOLEAN : AcquireAndSpawn(t, spawn_ok, hist[t])
    /\ UNCHANGED <<input, book, enable_cache, num_cpus, run, pc, futures,
                   files, intact, edits, gc, ret, dir0, prev, pure, mp>>

\* write_all to the child's stdin, or wait_with_output, fails: the ? leaves
\* the inner block, the permit is dropped and so is the Child handle, which
\* does not stop the subprocess.
IoFail(t) ==
    /\ pc = "collect"
    /\ tpc[t] = "wait"
    /\ Complete(t, "io", hist[t])
    /\ permits' = IF ReleasesPermit("io") THEN permits + 1 ELSE permits
    /\ UNCHANGED <<input, book, enable_cache, num_cpus, run, pc, futures,
                   proc, files, intact, edits, gc, ret, dir0, prev, pure, mp>>

-----------------------------------------------------------------------------
(* The renderer subprocess of task t: mmdc -i - -o <output_filepath>.      *)

\* The renderer creates (or truncates) its output file and starts to write.
ProcCreate(t) ==
    /\ proc[t] = "running"
    /\ proc' = [proc EXCEPT ![t] = "writing"]
    /\ files' = files \cup {futures[t].output_filename}
    /\ intact' = intact \ {futures[t].output_filename}
    /\ UNCHANGED <<input, book, enable_cache, num_cpus, run, pc, futures,
                   tpc, permits, results, completion, hist, edits, gc, ret,
                   dir0, prev, pure, mp>>

\* The renderer exits: with status 0 once the artifact is written in full,
\* with another status at any time, leaving what it wrote so far.  When its
\* task still waits for it, wait_with_output returns the status, the task
\* ends and its permit is dropped; a subprocess whose task has given up on
\* it just ends.
ProcExit(t) ==
    /\ proc[t] \in {"running", "writing"}
    /\ \E status \in {"exit0", "exit1"} :
        /\ status = "exit0" => proc[t] = "writing"
        /\ intact' = IF status = "exit0"
                     THEN intact \cup ({futures[t].output_filename} \cap files)
                     ELSE intact
        /\ IF tpc[t] = "wait"
           THEN /\ Complete(t, IF status = "exit0" THEN "rendered" ELSE "exit",
                            hist[t])
                /\ permits' = IF ReleasesPermit("exit") THEN permits + 1
                              ELSE permits
           ELSE UNCHANGED <<tpc, permits, results, completion, hist>>
    /\ proc' = [proc EXCEPT ![t] = "none"]
    /\ UNCHANGED <<input, book, enable_cache, num_cpus, run, pc, futures,
                   files, edits, gc, ret, dir0, prev, pure, mp>>

-----------------------------------------------------------------------------
(* The rest of async_process_book, after the collection.                   *)

\* Whether every block of the run got an image reference.
AllReferenced == \A t \in Tasks : hist[t].outcome \in {"hit", "rendered"}

\* A join that returns with the first output.
AnyComplete(positions) == \E t \in DOMAIN positions : positions[t] = "done"

\* join_all(all_futures).await is ready when every future has completed.
AllComplete(positions) == \A t \in DOMAIN positions : positions[t] = "done"

\* join_all returns once every task has finished.  The function then runs to
\* its end: referenced_files, the cleanup when caching is enabled (read_dir
\* may fail, and so may remove_file on any entry; neither ends the run), the
\* grouping, and the apply phase.  run returns Ok(book); a panic of
\* replace_range ends the process instead.
FinishRun ==
    /\ pc = "collect"
    /\ AllComplete(tpc)
    /\ LET es == JoinAll(results, completion)
           r == ApplyToItems(book, GroupByChapter(es))
       IN  /\ edits' = es
           /\ IF enable_cache
              THEN \E listed \in BOOLEAN :
                   \E failing \in SUBSET Unreferenced(files, ReferencedFiles(es)) :
                      /\ listed \/ failing = {}
                      /\ Cardinality(failing) <= MaxRemoveFailures
                      /\ files' = IF listed
                                  THEN AfterCleanup(files, ReferencedFiles(es),
                                                    failing)
                                  ELSE files
                      /\ gc' = [ran |-> TRUE, listed |-> listed,
                                failed |-> failing]
              ELSE /\ files' = files
                   /\ gc' = NoGc
           /\ IF r.panic
              THEN /\ ret' = "panic"
                   /\ UNCHANGED book
              ELSE /\ ret' = "Ok"
                   /\ book' = r.items
    /\ intact' = intact \cap files'
    /\ pc' = "done"
    /\ UNCHANGED <<input, enable_cache, num_cpus, run, futures, tpc, proc,
                   permits, results, completion, hist, dir0, prev, pure, mp>>

\* The host runs the preprocessor again on the same book, once the renderer
\* subprocesses of the last run have ended; the cache directory is what that
\* run left.  prev keeps the result of a run with caching enabled in which
\* every block got an image reference.
NextRun ==
    /\ pc = "done"
    /\ run < MaxRuns
    /\ Running = {}
    /\ prev' = IF ret = "Ok" /\ enable_cache /\ AllReferenced
               THEN [valid |-> TRUE, book |-> book, spawns |-> Spawns,
                     files |-> files, cold |-> dir0 = {}]
               ELSE NoPrev
    /\ run' = run + 1
    /\ book' = input
    /\ pc' = "start"
    /\ futures' = <<>>
    /\ tpc' = <<>>
    /\ proc' = <<>>
    /\ permits' = 0
    /\ results' = <<>>
    /\ completion' = <<>>
    /\ hist' = <<>>
    /\ edits' = <<>>
    /\ gc' = NoGc
    /\ ret' = "none"
    /\ dir0' = files
    /\ UNCHANGED <<input, enable_cache, num_cpus, files, intact, pure, mp>>

Next ==
    \/ Begin
    \/ \E t \in Tasks : Poll(t)
    \/ \E t \in Tasks : Wake(t)
    \/ \E t \in Tasks : IoFail(t)
    \/ \E t \in Tasks : ProcCreate(t)
    \/ \E t \in Tasks : ProcExit(t)
    \/ FinishRun

Spec == Init /\ [][Next]_vars

\* One run under the scheduling the runtime gives: join_all polls every
\* future, the semaphore wakes its first waiter when a permit is returned,
\* the function goes on once the join is ready; and every renderer that was
\* spawned exits at some time.  A write to the renderer's stdin may fail or
\* not, and the renderer may or may not create its file: no fairness there.
\* FinishRun is enabled exactly when the join is ready, and it is the only
\* step that leaves that state.
JoinReady == pc = "collect" /\ AllComplete(tpc)

\* The last conjunct is weak fairness of FinishRun, written with JoinReady
\* for ENABLED FinishRun: the function does not stay at the ready join.
Fairness ==
    /\ WF_vars(\E t \in Tasks : Poll(t))
    /\ WF_vars(\E t \in Tasks : Wake(t))
    /\ WF_vars(\E t \in Tasks : ProcExit(t))
    /\ []<>(~JoinReady)

\* A run that finds an empty cache directory.
InitLive ==
    /\ Init
    /\ files = {}

SpecLive == InitLive /\ [][Next]_vars /\ Fairness

\* Consecutive runs of the preprocessor on a book, the first of them on an
\* empty cache directory.
InitRerun ==
    /\ Init
    /\ files = {}

NextRerun ==
    \/ Next
    \/ NextRun

SpecRerun == InitRerun /\ [][NextRerun]_vars

-----------------------------------------------------------------------------
(* The pure functions on their own: the fingerprint of two requests, and   *)
(* the apply loop on one text with a set of edits.  No run takes place.    *)

Off ==
    /\ input = <<>>
    /\ book = <<>>
    /\ enable_cache = FALSE
    /\ num_cpus = 1
    /\ run = 0
    /\ pc = "off"
    /\ futures = <<>>
    /\ tpc = <<>>
    /\ proc = <<>>
    /\ permits = 0
    /\ results = <<>>
    /\ completion = <<>>
    /\ hist = <<>>
    /\ files = {}
    /\ intact = {}
    /\ edits = <<>>
    /\ gc = NoGc
    /\ ret = "none"
    /\ dir0 = {}
    /\ prev = NoPrev
    /\ mp = NoMp

main_vars == <<input, book, enable_cache, num_cpus, run, pc, futures, tpc,
               proc, permits, results, completion, hist, files, intact,
               edits, gc, ret, dir0, prev, mp>>

\* Diagram sources, output formats and renderer commands of the requests.
HashContents == {<<>>, Svg, CodeA}
HashFormats == {Svg, Png}
HashCommands == {Mmdc, Svg \o Mmdc}
Requests ==
    [content : HashContents, output_format : HashFormats,
     mmdc_cmd : HashCommands]

FilenameOf(q) ==
    OutputFilename(
        compute_cache_hash(q.content, q.output_format, q.mmdc_cmd),
        q.output_format)

InitHash ==
    /\ Off
    /\ \E a \in Requests, b \in Requests :
        pure = [kind |-> "hash", done |-> FALSE, a |-> a, b |-> b,
                hash_a |-> "", hash_b |-> "", again_a |-> "",
                name_a |-> <<>>, name_b |-> <<>>]

\* compute_cache_hash on both requests (twice on the first), and the names.
Fingerprint ==
    /\ pure.kind = "hash"
    /\ ~pure.done
    /\ pure' = [pure EXCEPT
            !.done = TRUE,
            !.hash_a = compute_cache_hash(pure.a.content,
                           pure.a.output_format, pure.a.mmdc_cmd),
            !.again_a = compute_cache_hash(pure.a.content,
                           pure.a.output_format, pure.a.mmdc_cmd),
            !.hash_b = compute_cache_hash(pure.b.content,
                           pure.b.output_format, pure.b.mmdc_cmd),
            !.name_a = FilenameOf(pure.a),
            !.name_b = FilenameOf(pure.b)]
    /\ UNCHANGED main_vars

SpecHash == InitHash /\ [][Fingerprint]_vars

\* The texts 0 1 2 ... of each length: every position is recognisable.
Digits == <<"0", "1", "2", "3", "4", "5", "6", "7">>
EditTexts == {SubSeq(Digits, 1, n) : n \in 0..MaxTextLen}
\* Replacement texts shorter than, as long as and longer than a range.
NewStrings == {<<>>, <<"X">>, <<"Y", "Y", "Y">>}

RangesOf(text) ==
    {[start |-> a, end |-> b] : a \in 0..Len(text), b \in 0..Len(text)}

\* The edits of one chapter: non-empty ranges inside the text.
EditsOf(text) ==
    {ChapterEdit(<<>>, r, n, <<>>) :
        r \in {x \in RangesOf(text) : x.start < x.end}, n \in NewStrings}

Overlap(e1, e2) ==
    e1.range.start < e2.range.end /\ e2.range.start < e1.range.end

NonOverlapping(es) ==
    \A i \in DOMAIN es, j \in DOMAIN es : i # j => ~Overlap(es[i], es[j])

\* Up to MaxEdits pairwise non-overlapping edits, in any order.
EditSeqs(text) ==
    UNION {{es \in [1..n -> EditsOf(text)] : NonOverlapping(es)} :
              n \in 0..MaxEdits}

InitEdit ==
    /\ Off
    /\ \E text \in EditTexts : \E es \in EditSeqs(text) :
        pure = [kind |-> "edit", done |-> FALSE, text |-> text, edits |-> es,
                out |-> [panic |-> FALSE, text |-> <<>>]]

\* The body of apply_edits_to_book_item_recursively on one chapter.
ApplyEdits ==
    /\ pure.kind = "edit"
    /\ ~pure.done
    /\ pure' = [pure EXCEPT
            !.done = TRUE,
            !.out = ApplySorted(pure.text, SortedEdits(pure.edits))]
    /\ UNCHANGED main_vars

SpecEdit == InitEdit /\ [][ApplyEdits]_vars

-----------------------------------------------------------------------------
(* MermaidPreprocessor::run (src/src/main.rs): the preprocessor of the     *)
(* binary.  It clears and creates generated/diagrams, then goes through    *)
(* the top-level items of the book one block at a time: a fresh uuid names *)
(* the artifact, the renderer is spawned and awaited, and the chapter is   *)
(* rewritten once all of its blocks are rendered.  Every error is          *)
(* propagated with ? or bail! and ends the run.                            *)

\* mermaid_re = ```mermaid\n([\s\S]*?)\n``` : the closing \n``` at offset at.
MpClosingAt(text, at) ==
    IF LitAt(text, at, <<LF>> \o Backticks) THEN at + 4 ELSE -1

RECURSIVE MpLazyBodyEnd(_, _)
MpLazyBodyEnd(text, at) ==
    IF at > Len(text) THEN -1
    ELSE IF MpClosingAt(text, at) >= 0 THEN at
    ELSE MpLazyBodyEnd(text, at + 1)

\* The match of this mermaid_re that starts exactly at offset at.
MpMatchAt(text, at) ==
    LET body == IF LitAt(text, at, OpenFence \o <<LF>>)
                THEN at + Len(OpenFence) + 1 ELSE -1
        stop == IF body >= 0 THEN MpLazyBodyEnd(text, body) ELSE -1
    IN  IF stop < 0 THEN [ok |-> FALSE]
        ELSE [ok |-> TRUE, start |-> at, end |-> MpClosingAt(text, stop),
              group1 |-> Slice(text, body, stop),
              group0 |-> Slice(text, at, MpClosingAt(text, stop))]

\* mermaid_re.captures_iter(&chapter.content)
RECURSIVE mp_captures_iter(_, _)
mp_captures_iter(text, from) ==
    IF from >= Len(text) THEN <<>>
    ELSE LET m == MpMatchAt(text, from)
         IN  IF m.ok THEN <<m>> \o mp_captures_iter(text, m.end)
             ELSE mp_captures_iter(text, from + 1)

\* format!("{}.svg", Uuid::new_v4()): the n-th identifier drawn in a run;
\* two draws never give the same identifier.
svg_filename(n) == <<"uuid" \o ToString(n), ".">> \o Svg

\* format!("![diagram](./{})", generated/diagrams/<svg_filename>)
mp_img_tag(name) == ImgOpen \o GeneratedDiagrams \o name \o <<")">>

\* str::replace(old, new): every occurrence of old, from left to right (old
\* is a whole block, never empty).
\* Offset of the first occurrence of old in text at or after at, or -1.
NextOccurrence(text, at, old) ==
    LET hits == {k \in at..(Len(text) - Len(old)) : LitAt(text, k, old)}
    IN  IF hits = {} THEN -1
        ELSE CHOOSE k \in hits : \A j \in hits : k <= j

RECURSIVE replace_from(_, _, _, _)
replace_from(text, at, old, new) ==
    LET k == NextOccurrence(text, at, old)
    IN  IF k < 0 THEN Slice(text, at, Len(text))
        ELSE Slice(text, at, k) \o new
                 \o replace_from(text, k + Len(old), old, new)

replace(text, old, new) == replace_from(text, 0, old, new)

\* for (old, new) in replacements { chapter_content = ...replace(&old, &new) }
RECURSIVE ApplyReplacements(_, _)
ApplyReplacements(chapter_content, replacements) ==
    IF replacements = <<>> THEN chapter_content
    ELSE ApplyReplacements(
             replace(chapter_content, Head(replacements).old,
                     Head(replacements).new),
             Tail(replacements))

\* The errors of the render of one block, and the ones of the directory.
RenderErrors == {"spawn", "io", "exit"}

\* What generated/diagrams can be when a run begins: not there yet, there
\* and empty, or there with the artifacts of an earlier run.
PriorStates == {"absent", "empty", "stale"}

\* The variables MermaidPreprocessor::run has no part in.
lib_vars == <<enable_cache, num_cpus, run, pc, futures, tpc, proc, permits,
              results, completion, hist, intact, edits, gc, dir0, prev, pure>>

InitMermaid ==
    /\ input \in Books
    /\ book = input
    /\ enable_cache = FALSE
    /\ num_cpus = 1
    /\ run = 0
    /\ pc = "off"
    /\ futures = <<>>
    /\ tpc = <<>>
    /\ proc = <<>>
    /\ permits = 0
    /\ results = <<>>
    /\ completion = <<>>
    /\ hist = <<>>
    /\ intact = {}
    /\ edits = <<>>
    /\ gc = NoGc
    /\ ret = "none"
    /\ dir0 = {}
    /\ prev = NoPrev
    /\ pure = NoPure
    /\ \E prior \in PriorStates :
        /\ files = IF prior = "stale" THEN {StaleName, svg_filename(0)}
                   ELSE {}
        /\ mp = [pc |-> "remove", prior |-> prior,
                 exists |-> prior # "absent", refused |-> FALSE,
                 item |-> 1, caps |-> <<>>, cap |-> 1,
                 replacements |-> <<>>, child |-> "none", uuids |-> 0,
                 error |-> "none", failed |-> <<>>]

\* The run returns Err(error): the book is dropped with the function.
Fails(error, state) ==
    /\ mp' = [state EXCEPT !.pc = "done", !.error = error]
    /\ ret' = "Err"

\* fs::remove_dir_all(&output_dir)? : an error when the directory is not
\* there; on a directory that is there the removal can be refused at any
\* entry, which leaves some of the entries.
RemoveDirAll ==
    /\ mp.pc = "remove"
    /\ IF ~mp.exists
       THEN /\ Fails("remove", mp)
            /\ UNCHANGED files
       ELSE \E refused \in BOOLEAN :
            IF refused
            THEN \E kept \in SUBSET files :
                    /\ files' = kept
                    /\ Fails("remove", [mp EXCEPT !.refused = TRUE])
            ELSE /\ files' = {}
                 /\ mp' = [mp EXCEPT !.pc = "create", !.exists = FALSE]
                 /\ UNCHANGED ret
    /\ UNCHANGED <<input, book>>
    /\ UNCHANGED lib_vars

\* fs::create_dir_all(&output_dir)?
CreateDirAll ==
    /\ mp.pc = "create"
    /\ \E created \in BOOLEAN :
        IF created
        THEN /\ mp' = [mp EXCEPT !.pc = "item", !.exists = TRUE]
             /\ UNCHANGED ret
        ELSE Fails("create", mp)
    /\ UNCHANGED <<input, book, files>>
    /\ UNCHANGED lib_vars

\* for item in &mut book.sections: a chapter has its blocks located, any
\* other item is passed over.  The sub_items of a chapter are not visited.
NextItem ==
    /\ mp.pc = "item"
    /\ mp.item <= Len(book)
    /\ mp' = IF book[mp.item].kind = "Chapter"
             THEN [mp EXCEPT
                      !.pc = "capture",
                      !.caps = mp_captures_iter(book[mp.item].content, 0),
                      !.cap = 1,
                      !.replacements = <<>>]
             ELSE [mp EXCEPT !.item = mp.item + 1]
    /\ UNCHANGED <<input, book, files, ret>>
    /\ UNCHANGED lib_vars

\* Uuid::new_v4() and Command::new("mmdc") ... .spawn()?
SpawnChild ==
    /\ mp.pc = "capture"
    /\ mp.cap <= Len(mp.caps)
    /\ LET drawn == [mp EXCEPT !.uuids = mp.uuids + 1]
       IN  \E spawned \in BOOLEAN :
            IF spawned
            THEN /\ mp' = [drawn EXCEPT !.pc = "stdin", !.child = "running"]
                 /\ UNCHANGED ret
            ELSE Fails("spawn",
                       [drawn EXCEPT !.failed = mp.caps[mp.cap].group0])
    /\ UNCHANGED <<input, book, files>>
    /\ UNCHANGED lib_vars

\* stdin.write_all(mermaid_code.as_bytes())? : on an error the Child is
\* dropped, which does not stop the subprocess.
WriteStdin ==
    /\ mp.pc = "stdin"
    /\ \E written \in BOOLEAN :
        IF written
        THEN /\ mp' = [mp EXCEPT !.pc = "wait"]
             /\ UNCHANGED ret
        ELSE Fails("io", [mp EXCEPT !.failed = mp.caps[mp.cap].group0])
    /\ UNCHANGED <<input, book, files>>
    /\ UNCHANGED lib_vars

\* The renderer creates its output file <output_dir>/<uuid>.svg.
ChildCreate ==
    /\ mp.child = "running"
    /\ mp' = [mp EXCEPT !.child = "writing"]
    /\ files' = files \cup {svg_filename(mp.uuids)}
    /\ UNCHANGED <<input, book, ret>>
    /\ UNCHANGED lib_vars

\* child.wait_with_output()? and the test of the status: status 0 (once the
\* artifact is written) records the replacement of the block, any other
\* status is bail!("mmdc failed: ..."), an error of the wait is propagated.
WaitWithOutput ==
    /\ mp.pc = "wait"
    /\ \E status \in {"exit0", "exit1", "io"} :
        /\ status = "exit0" => mp.child = "writing"
        /\ IF status = "exit0"
           THEN /\ mp' = [mp EXCEPT
                      !.pc = "capture",
                      !.child = "none",
                      !.cap = mp.cap + 1,
                      !.replacements =
                          Append(mp.replacements,
                                 [old |-> mp.caps[mp.cap].group0,
                                  new |-> mp_img_tag(svg_filename(mp.uuids))])]
                /\ UNCHANGED ret
           ELSE Fails(IF status = "exit1" THEN "exit" ELSE "io",
                      [mp EXCEPT
                          !.child = IF status = "exit1" THEN "none"
                                    ELSE mp.child,
                          !.failed = mp.caps[mp.cap].group0])
    /\ UNCHANGED <<input, book, files>>
    /\ UNCHANGED lib_vars

\* A renderer the run no longer waits for comes to its end.
ChildExit ==
    /\ mp.pc = "done"
    /\ mp.child # "none"
    /\ mp' = [mp EXCEPT !.child = "none"]
    /\ UNCHANGED <<input, book, files, ret>>
    /\ UNCHANGED lib_vars

\* After the last block of the chapter: the replacements are applied to the
\* copy of the content and the copy is stored in the chapter.
ReplaceAll ==
    /\ mp.pc = "capture"
    /\ mp.cap > Len(mp.caps)
    /\ book' = [book EXCEPT ![mp.item].content =
                   ApplyReplacements(book[mp.item].content, mp.replacements)]
    /\ mp' = [mp EXCEPT !.pc = "item", !.item = mp.item + 1]
    /\ UNCHANGED <<input, files, ret>>
    /\ UNCHANGED lib_vars

\* Ok(book), after the last item.
ReturnOk ==
    /\ mp.pc = "item"
    /\ mp.item > Len(book)
    /\ mp' = [mp EXCEPT !.pc = "done"]
    /\ ret' = "Ok"
    /\ UNCHANGED <<input, book, files>>
    /\ UNCHANGED lib_vars

NextMermaid ==
    \/ RemoveDirAll
    \/ CreateDirAll
    \/ NextItem
    \/ SpawnChild
    \/ WriteStdin
    \/ ChildCreate
    \/ WaitWithOutput
    \/ ChildExit
    \/ ReplaceAll
    \/ ReturnOk

SpecMermaid == InitMermaid /\ [][NextMermaid]_vars

-----------------------------------------------------------------------------
(* Properties.                                                             *)

\* The forward pass the apply loop is compared with: the edits in ascending
\* order of start, each range moved by the growth of the text so far.
RECURSIVE ForwardPass(_, _, _)
ForwardPass(text, es, shift) ==
    IF es = <<>> THEN text
    ELSE LET e == Head(es)
             from == e.range.start + shift
             to == e.range.end + shift
         IN  ForwardPass(
                 Slice(text, 0, from) \o e.new_string
                     \o Slice(text, to, Len(text)),
                 Tail(es),
                 shift + Len(e.new_string) - (e.range.end - e.range.start))

ForwardApply(text, es) == ForwardPass(text, SortByStart(es), 0)

\* C5: for a chapter with N pairwise non-overlapping edits (non-empty ranges,
\* replacement texts shorter and longer than the ranges), the apply loop, which
\* takes the edits in descending order of start, ends without a panic and
\* gives the text of the forward pass with offset tracking.
C5_DescendingEqualsForward ==
    (pure.kind = "edit" /\ pure.done) =>
        /\ ~pure.out.panic
        /\ pure.out.text = ForwardApply(pure.text, pure.edits)

\* C5 witness: three edits given out of order, one that shrinks the text and
\* one that grows it, have been applied.
C5_Witness ==
    /\ pure.kind = "edit"
    /\ pure.done
    /\ Len(pure.edits) = 3
    /\ pure.edits[1].range.start > pure.edits[2].range.start
    /\ \E i \in DOMAIN pure.edits :
          Len(pure.edits[i].new_string)
              < pure.edits[i].range.end - pure.edits[i].range.start
    /\ \E i \in DOMAIN pure.edits :
          Len(pure.edits[i].new_string)
              > pure.edits[i].range.end - pure.edits[i].range.start

\* C8: compute_cache_hash is deterministic, and two requests that differ in
\* any field (one or several) get different fingerprints and different cache
\* file names.
C8_DistinctRequestsDistinctFingerprints ==
    (pure.kind = "hash" /\ pure.done) =>
        /\ pure.hash_a = pure.again_a
        /\ pure.a # pure.b =>
              /\ pure.hash_a # pure.hash_b
              /\ pure.name_a # pure.name_b


\* The item at position unit of the tree.
RECURSIVE ItemAt(_, _)
ItemAt(items, unit) ==
    IF Len(unit) = 1 THEN items[Head(unit)]
    ELSE ItemAt(items[Head(unit)].sub_items, Tail(unit))

\* The chapters that hold a block, by position.
Units == {futures[t].unit : t \in Tasks}

\* The positions of all chapters of a tree, at every depth.
RECURSIVE ChapterUnitsFrom(_, _)
ChapterUnitsFrom(items, prefix) ==
    UNION {IF items[i].kind = "Chapter"
           THEN {Append(prefix, i)}
                \cup ChapterUnitsFrom(items[i].sub_items, Append(prefix, i))
           ELSE {} : i \in DOMAIN items}

ChapterUnits == ChapterUnitsFrom(input, <<>>)

\* What the document shows for block t: the image reference when the block
\* was served from the cache or rendered, else one diagnostic comment
\* directly in front of the original block.
Shown(t) ==
    IF hist[t].outcome \in {"hit", "rendered"} THEN futures[t].img_tag
    ELSE ErrOpen \o <<ErrorLine(hist[t].outcome)>> \o ErrClose
         \o futures[t].original_block

\* The text of chapter u with each of its blocks replaced by what is shown
\* for it, and every other byte kept.
ExpectedText(u) ==
    LET mine == SelectSeq([t \in 1..Len(futures) |-> t],
                          LAMBDA t : futures[t].unit = u)
    IN  ForwardApply(ItemAt(input, u).content,
            [i \in 1..Len(mine) |->
                ChapterEdit(futures[mine[i]].chapter_path,
                            futures[mine[i]].range, Shown(mine[i]), <<>>)])

\* The run got past create_dir_all and has come to its end.
Ended == pc = "done" /\ ret # "Err"

\* C1: whatever subset of the blocks fails to render, the run ends normally
\* and in every chapter each other block is replaced by its image reference
\* and each failed block is kept with exactly one comment in front of it.
C1_FailureIsolation ==
    Ended =>
        /\ ret = "Ok"
        /\ \A u \in Units : ItemAt(book, u).content = ExpectedText(u)

\* No two chapters of the book share a chapter_path.
DistinctPaths ==
    \A u \in ChapterUnits, v \in ChapterUnits :
        unwrap_or_default(ItemAt(input, u).path)
            = unwrap_or_default(ItemAt(input, v).path) => u = v

\* C1 on the books whose chapters have pairwise different paths.
C1_OnDistinctPaths == DistinctPaths => C1_FailureIsolation

\* C2: every located block yields exactly one edit, whatever the outcome of
\* its task: a finished task holds an Ok edit for its own block, and after
\* the join there are as many edits as blocks, the t-th for the t-th block.
C2_OneEditPerBlock ==
    /\ \A t \in Tasks : tpc[t] = "done" =>
          /\ results[t].ok
          /\ results[t].edit.range = futures[t].range
          /\ results[t].edit.chapter_path = futures[t].chapter_path
    /\ pc = "done" =>
          /\ Len(edits) = Len(futures)
          /\ \A t \in Tasks :
                /\ edits[t].range = futures[t].range
                /\ edits[t].chapter_path = futures[t].chapter_path

\* C2 witness: a run of three blocks ended whose tasks failed in the three
\* ways a render can fail.
C2_Witness ==
    /\ pc = "done"
    /\ Len(futures) = 3
    /\ {hist[t].outcome : t \in Tasks} = {"spawn", "io", "exit"}
    /\ Len(edits) = 3

\* C3: with caching enabled, a task that finds the artifact of its block in
\* the cache directory ends at once with an edit that holds the image tag and
\* names the artifact; it takes no permit and spawns no renderer.
C3_CacheHitSkipsRenderer ==
    \A t \in Tasks :
        (enable_cache /\ tpc[t] # "start" /\ hist[t].saw_file) =>
            /\ tpc[t] = "done"
            /\ ~hist[t].acquired
            /\ ~hist[t].spawned
            /\ proc[t] = "none"
            /\ results[t] = Ok(ChapterEdit(futures[t].chapter_path,
                                  futures[t].range, futures[t].img_tag,
                                  futures[t].output_filename))
            /\ pc = "done" =>
                  futures[t].output_filename \in ReferencedFiles(edits)

\* C3 witness: a task was served from the cache while every permit was held
\* by the renderers of other tasks.
C3_Witness ==
    /\ enable_cache
    /\ permits = 0
    /\ \E t \in Tasks :
          hist[t].saw_file /\ hist[t].hit /\ tpc[t] = "done"
    /\ \E t \in Tasks : tpc[t] = "wait"

\* C4: after a run with caching enabled that refers to some artifacts and in
\* which no deletion failed, the cache directory holds exactly the artifacts
\* the edits of the run refer to.
C4_ExactlyReferenced ==
    (Ended /\ ret = "Ok" /\ enable_cache /\ gc.failed = {}
           /\ ReferencedFiles(edits) # {}) =>
        files = ReferencedFiles(edits)

\* C4 as amended: when the cleanup of a run with caching enabled lists the
\* directory and no deletion fails, the directory holds, right after the
\* cleanup, exactly the referenced artifacts and the entries whose names are
\* not valid Unicode.
C4_CleanupLeavesReferenced ==
    [][(pc = "collect" /\ pc' = "done" /\ enable_cache /\ gc'.listed
            /\ gc'.failed = {})
        => files' = ReferencedFiles(edits')
                        \cup {n \in files : ~into_string_ok(n)}]_vars

\* C4 witness: a cleanup removed a stale entry and kept one artifact that was
\* in the cache before the run and one that the run rendered.
C4_Witness ==
    /\ Ended
    /\ enable_cache
    /\ gc.listed
    /\ gc.failed = {}
    /\ StaleName \in dir0
    /\ StaleName \notin files
    /\ \E s \in Tasks, t \in Tasks :
          /\ hist[s].outcome = "hit"
          /\ hist[t].outcome = "rendered"
          /\ {futures[s].output_filename, futures[t].output_filename}
                \subseteq files

\* No two blocks of the book have the same source.
DistinctSources ==
    \A s \in Tasks, t \in Tasks :
        s # t => futures[s].mermaid_code # futures[t].mermaid_code

\* C6: with caching enabled, a first run that starts from an empty cache and
\* renders its blocks, all of different sources, invokes the renderer once per
\* block and leaves one cache file per block; the run that follows a run in
\* which every block got an image reference invokes the renderer zero times,
\* leaves the same cache files and returns the same text.
C6_SecondRunFromCache ==
    /\ (Ended /\ enable_cache /\ dir0 = {} /\ DistinctSources
            /\ \A t \in Tasks : hist[t].outcome = "rendered") =>
          /\ Spawns = Len(futures)
          /\ files = {futures[t].output_filename : t \in Tasks}
          /\ Cardinality(files) = Len(futures)
    /\ (Ended /\ prev.valid) =>
          /\ Spawns = 0
          /\ files = prev.files
          /\ ret = "Ok"
          /\ book = prev.book

\* C6 witness: the second run ended after a first run that rendered two
\* blocks from an empty cache.
C6_Witness ==
    /\ Ended
    /\ run = 2
    /\ prev.valid
    /\ prev.cold
    /\ prev.spawns = 2
    /\ Cardinality(prev.files) = 2
    /\ Len(futures) = 2
    /\ book # input

\* C7: when no renderer can be spawned (every task tries and fails), the run
\* returns success, every edit is the diagnostic comment followed by the
\* original block and names no cache file, and the text of every chapter
\* shows each of its blocks that way.
C7_MissingRenderer ==
    (Ended /\ \A t \in Tasks : hist[t].outcome = "spawn") =>
        /\ ret = "Ok"
        /\ \A t \in Tasks :
              /\ edits[t].new_string
                    = error_comment("spawn", futures[t].original_block)
              /\ edits[t].cached_filename = <<>>
        /\ \A u \in Units : ItemAt(book, u).content = ExpectedText(u)

\* C7 on the books whose chapters have pairwise different paths.
C7_OnDistinctPaths == DistinctPaths => C7_MissingRenderer

\* The edits the tasks produced, in the order of the blocks in the book.
DocumentOrderEdits ==
    [t \in 1..Len(futures) |-> TaskOutput(futures[t], hist[t].outcome).edit]

\* C9: the result of a run is fixed by the book and the outcome of each task:
\* it is what the apply phase gives for the edits taken in the order of their
\* blocks, whatever order the tasks finished in.
C9_CompletionOrderIrrelevant ==
    Ended =>
        LET r == ApplyToItems(input, GroupByChapter(DocumentOrderEdits))
        IN  /\ ret = IF r.panic THEN "panic" ELSE "Ok"
            /\ ~r.panic => book = r.items

\* C9 witness: a run ended normally in which a later block of a chapter
\* finished before an earlier block of the same chapter.
C9_Witness ==
    /\ Ended
    /\ ret = "Ok"
    /\ \E i \in DOMAIN completion, j \in DOMAIN completion :
          /\ i < j
          /\ completion[i] > completion[j]
          /\ futures[completion[i]].unit = futures[completion[j]].unit
          /\ hist[completion[i]].outcome # hist[completion[j]].outcome

\* C10: during the collection the number of renderer subprocesses that were
\* spawned and have not exited is at most the size of the semaphore.
C10_AtMostSemaphoreSize ==
    pc = "collect" => Cardinality(Running) <= SemaphoreSize(num_cpus)

\* C10 on the subprocesses whose tasks still wait for them.
C10_AwaitedAtMostSemaphoreSize ==
    pc = "collect" =>
        Cardinality({t \in Running : tpc[t] = "wait"})
            <= SemaphoreSize(num_cpus)

\* C11: no chapter text changes and no cache entry is removed while a
\* collection task is pending: the step that first changes the book, runs the
\* cleanup or removes an entry is taken when every task has completed, from
\* the book as received, in which every recorded range still holds the block
\* it was recorded for.
C11_NoMutationWhileCollecting ==
    [][(book' # book \/ gc' # gc \/ ~(files \subseteq files')) =>
          /\ \A t \in Tasks : tpc[t] = "done"
          /\ book = input
          /\ \A t \in Tasks :
                Slice(ItemAt(book, futures[t].unit).content,
                      futures[t].range.start, futures[t].range.end)
                    = futures[t].original_block]_vars

\* C11 witness: a run of three blocks whose tasks did not finish in the order
\* of the blocks has run the cleanup and changed the text.
C11_Witness ==
    /\ pc = "done"
    /\ ret = "Ok"
    /\ book # input
    /\ gc.ran
    /\ Len(completion) = 3
    /\ completion[1] # 1

\* The tree without the text of its chapters: items, order, nesting, paths.
RECURSIVE Skeleton(_)
Skeleton(items) ==
    [i \in DOMAIN items |->
        IF items[i].kind = "Chapter"
        THEN [items[i] EXCEPT !.content = <<>>,
                              !.sub_items = Skeleton(items[i].sub_items)]
        ELSE items[i]]

\* The ranges of the blocks located in chapter u, left to right.
OwnRanges(u) ==
    LET mine == SelectSeq([t \in 1..Len(futures) |-> t],
                          LAMBDA t : futures[t].unit = u)
    IN  [i \in 1..Len(mine) |-> futures[mine[i]].range]

\* The pieces of text outside the ranges: in front of the first, between
\* two neighbours, behind the last.
Gaps(text, ranges) ==
    [i \in 1..(Len(ranges) + 1) |->
        Slice(text,
              IF i = 1 THEN 0 ELSE ranges[i - 1].end,
              IF i > Len(ranges) THEN Len(text) ELSE ranges[i].start)]

\* text holds the pieces in their order, the last of them at its end.
RECURSIVE HoldsInOrder(_, _)
HoldsInOrder(text, pieces) ==
    LET g == Head(pieces)
    IN  IF Len(pieces) = 1
        THEN /\ Len(text) >= Len(g)
             /\ SubSeq(text, Len(text) - Len(g) + 1, Len(text)) = g
        ELSE \E k \in 0..(Len(text) - Len(g)) :
                /\ SubSeq(text, k + 1, k + Len(g)) = g
                /\ HoldsInOrder(SubSeq(text, k + Len(g) + 1, Len(text)),
                                Tail(pieces))

\* text begins with the first piece and holds the others in order behind it.
KeepsOutside(text, pieces) ==
    IF Len(pieces) = 1 THEN text = pieces[1]
    ELSE /\ Len(text) >= Len(pieces[1])
         /\ SubSeq(text, 1, Len(pieces[1])) = pieces[1]
         /\ HoldsInOrder(SubSeq(text, Len(pieces[1]) + 1, Len(text)),
                         Tail(pieces))

\* C12: a run that returns leaves the shape of the tree as received, leaves
\* the text of every chapter without a block as received, and in a chapter
\* with blocks keeps every byte outside the ranges of its blocks.
C12_OnlyBlockUnitsChange ==
    (Ended /\ ret = "Ok") =>
        /\ Skeleton(book) = Skeleton(input)
        /\ \A u \in ChapterUnits :
              /\ u \notin Units =>
                    ItemAt(book, u).content = ItemAt(input, u).content
              /\ KeepsOutside(ItemAt(book, u).content,
                              Gaps(ItemAt(input, u).content, OwnRanges(u)))

\* C12 on the books whose chapters have pairwise different paths.
C12_OnDistinctPaths == DistinctPaths => C12_OnlyBlockUnitsChange

\* The edits of the blocks located in chapter u, as the join returned them.
OwnEdits(u) ==
    LET mine == SelectSeq([t \in 1..Len(edits) |-> t],
                          LAMBDA t : futures[t].unit = u)
    IN  [i \in 1..Len(mine) |-> edits[mine[i]]]

\* C17: the apply phase ends normally and gives every chapter the text it
\* was received with, changed by the edits of the blocks located in that
\* chapter, each applied once, and by no other edit; also when chapters share
\* a path or have none.
C17_EditsReachTheirOwnUnit ==
    Ended =>
        /\ ret = "Ok"
        /\ \A u \in ChapterUnits :
              ItemAt(book, u).content
                  = ForwardApply(ItemAt(input, u).content, OwnEdits(u))

\* C17 on the books whose chapters have pairwise different paths.
C17_OnDistinctPaths == DistinctPaths => C17_EditsReachTheirOwnUnit

\* C13: with caching disabled every task takes the render path, also when
\* the artifact of its block is in the directory: a task past the acquire
\* holds or held a permit and was not served from the cache, a finished task
\* went through command.spawn; the cleanup does not run and no entry of the
\* directory is removed.
C13_CachingDisabledAlwaysRenders ==
    ~enable_cache =>
        /\ \A t \in Tasks :
              /\ tpc[t] \in {"wait", "done"} =>
                    hist[t].acquired /\ ~hist[t].hit
              /\ tpc[t] = "done" =>
                    hist[t].outcome \in {"spawn", "io", "exit", "rendered"}
        /\ ~gc.ran
        /\ dir0 \subseteq files

\* C13 witness: a run with caching disabled ended in which a task found the
\* artifact of its block in the directory and spawned the renderer, and the
\* entry no block refers to is still there.
C13_Witness ==
    /\ ~enable_cache
    /\ pc = "done"
    /\ ret = "Ok"
    /\ StaleName \in files
    /\ \E t \in Tasks :
          hist[t].saw_file /\ hist[t].spawned /\ tpc[t] = "done"

\* What C14 says of a cleanup that met a failure: of the entries it found
\* under a Unicode name, every one that is not referenced and whose deletion
\* did not fail is gone and the others are kept (when the directory could be
\* listed), the run returns success, and the edits of all blocks were applied.
CleanupFailureSkipped ==
    (pc = "collect" /\ pc' = "done" /\ gc'.ran
        /\ (gc'.failed # {} \/ ~gc'.listed)) =>
        /\ gc'.listed =>
              \A n \in {x \in files : into_string_ok(x)} :
                  n \in files' <=>
                      (n \in ReferencedFiles(edits') \/ n \in gc'.failed)
        /\ ret' = "Ok"
        /\ Len(edits') = Len(futures)
        /\ book' = ApplyToItems(book, GroupByChapter(edits')).items

\* C14: a deletion that fails is skipped and a listing that fails is
\* tolerated: the other unreferenced entries are deleted, the run completes
\* successfully and applies all edits.
C14_CleanupFailuresAreSkipped == [][CleanupFailureSkipped]_vars

\* C14 on the books whose chapters have pairwise different paths.
C14_OnDistinctPaths == [][DistinctPaths => CleanupFailureSkipped]_vars

\* Every task of the run whose block has the fingerprint of block t tried to
\* render it and failed.
EveryRenderFailed(t) ==
    \A s \in Tasks :
        futures[s].output_filename = futures[t].output_filename
            => hist[s].outcome \in {"spawn", "io", "exit"}

\* C15: with caching enabled, after a run whose cleanup listed the directory
\* and met no failing deletion, no entry is named for a fingerprint whose
\* every render of the run failed.
C15_FailedRenderLeavesNoArtifact ==
    (Ended /\ enable_cache /\ gc.listed /\ gc.failed = {}) =>
        \A t \in Tasks :
            EveryRenderFailed(t) => futures[t].output_filename \notin files

\* C15 for the runs in which no task gave up on a renderer that was running.
C15_WithoutAbandonedRenderers ==
    (\A t \in Tasks : hist[t].outcome # "io")
        => C15_FailedRenderLeavesNoArtifact

\* Position a comes before position b in the pre-order of the tree, or is b.
RECURSIVE PreOrderLeq(_, _)
PreOrderLeq(a, b) ==
    IF a = <<>> THEN TRUE
    ELSE IF b = <<>> THEN FALSE
    ELSE IF Head(a) # Head(b) THEN Head(a) < Head(b)
    ELSE PreOrderLeq(Tail(a), Tail(b))

\* The walk has created the tasks and none of them has been polled.
WalkDone == pc = "collect" /\ \A t \in Tasks : tpc[t] = "start"

\* C16: once the walk is done there is a task for every match of the fence
\* pattern that overlaps no earlier match, in every chapter at every depth,
\* and no other task; the tasks stand in pre-order of their chapters and,
\* within one chapter, left to right with disjoint ranges.
C16_WalkInDocumentOrder ==
    WalkDone =>
        /\ \A t \in Tasks :
              LET text == ItemAt(input, futures[t].unit).content
                  m == MatchAt(text, futures[t].range.start)
              IN  /\ futures[t].unit \in ChapterUnits
                  /\ m.ok
                  /\ m.end = futures[t].range.end
                  /\ futures[t].range.start < futures[t].range.end
                  /\ futures[t].mermaid_code = m.group1
                  /\ futures[t].original_block
                        = Slice(text, futures[t].range.start,
                                futures[t].range.end)
        /\ \A s \in Tasks, t \in Tasks :
              s < t =>
                  /\ PreOrderLeq(futures[s].unit, futures[t].unit)
                  /\ futures[s].unit = futures[t].unit =>
                        futures[s].range.end <= futures[t].range.start
        /\ \A u \in ChapterUnits :
              LET text == ItemAt(input, u).content
              IN  \A at \in 0..(Len(text) - 1) :
                      MatchAt(text, at).ok =>
                          \E t \in Tasks :
                              /\ futures[t].unit = u
                              /\ futures[t].range.start <= at
                              /\ at < futures[t].range.end
                              /\ \A r \in Tasks :
                                    (futures[r].unit = u /\ r < t) =>
                                        futures[r].range.end <= at

\* C16 witness: the walk gave a task for the block of a chapter and, after
\* it, a task for the block of the chapter nested in it.
C16_Witness ==
    /\ WalkDone
    /\ Len(futures) = 2
    /\ futures[1].unit = <<1>>
    /\ futures[2].unit = <<1, 1>>
    /\ futures[2].chapter_path = <<"sub", "b.md">>

\* C18: every artifact an edit of the run refers to is complete: it was
\* written in full by a renderer that exited with status 0, in this run or
\* before it.  Stated for the runs that return and in which every task that
\* spawned a renderer waited for its exit.
C18_ReferencedArtifactsAreComplete ==
    (Ended /\ ret = "Ok" /\ \A t \in Tasks : hist[t].outcome # "io") =>
        \A t \in Tasks :
            edits[t].cached_filename # <<>> =>
                edits[t].cached_filename \in intact

\* C18 for the runs in which no two blocks have the same source.
C18_OnDistinctSources == DistinctSources => C18_ReferencedArtifactsAreComplete

\* C19: during the collection no two renderers that are running have the
\* same output file, and no fingerprint has been given to the renderer by
\* more than one task of the run.
C19_OneRendererPerArtifact ==
    pc = "collect" =>
        /\ \A s \in Running, t \in Running :
              futures[s].output_filename = futures[t].output_filename
                  => s = t
        /\ \A s \in Tasks, t \in Tasks :
              (hist[s].spawned /\ hist[t].spawned
                  /\ futures[s].output_filename = futures[t].output_filename)
                  => s = t

\* C19 for the runs in which no two blocks have the same source.
C19_OnDistinctSources == DistinctSources => C19_OneRendererPerArtifact

\* C20: when every renderer that was spawned exits, a run that has started
\* its collection comes to the point where every task has completed and the
\* apply phase has run, however many blocks there are for the permits.
C20_CollectionTerminates ==
    (pc = "collect") ~> (pc = "done" /\ \A t \in Tasks : tpc[t] = "done")

\* C20 witness: a run of three blocks on one processing unit has ended, in
\* which two tasks waited for a permit and tasks ended on each path that
\* returns one: spawn failure, I/O failure, non-zero exit.
C20_Witness ==
    /\ pc = "done"
    /\ num_cpus = 1
    /\ Len(futures) = 3
    /\ \A t \in Tasks : hist[t].acquired
    /\ {hist[t].outcome : t \in Tasks} = {"spawn", "io", "exit"}

-----------------------------------------------------------------------------
(* MermaidPreprocessor::run: errors of a render and of the directory.      *)

\* Whether some chapter of the items holds the diagnostic of the failed
\* block followed by the text of the block.
HoldsDiagnostic(items, kind, block) ==
    \E i \in DOMAIN items :
        /\ items[i].kind = "Chapter"
        /\ \E at \in 0..Len(items[i].content) :
              LitAt(items[i].content, at, error_comment(kind, block))

\* The body of C22: a run ends with an error of the directory only when the
\* creation failed, and the blocks are rendered into a directory that is
\* there and empty.
ClearedThenCreated ==
    /\ (mp.pc = "done" /\ ret = "Err" /\ mp.error \notin RenderErrors)
           => mp.error = "create"
    /\ (mp.pc \in {"item", "capture", "stdin", "wait"} /\ mp.uuids = 0)
           => (mp.exists /\ files = {})

\* C21: in MermaidPreprocessor::run a render error (spawn failure, non-zero
\* exit, I/O failure on the renderer's pipes) is recovered for the one
\* block: the run still returns Ok, every item of the book was visited, and
\* the chapter of the block holds the diagnostic and the original block.
C21_RenderErrorRecoveredPerBlock ==
    (mp.pc = "done" /\ mp.error \in RenderErrors) =>
        /\ ret = "Ok"
        /\ mp.item > Len(input)
        /\ HoldsDiagnostic(book, mp.error, mp.failed)

\* What the run does on a render error: it returns Err at the block, with
\* the chapter of the block not rewritten and no diagnostic anywhere.
C21_RenderErrorEndsRun ==
    (mp.pc = "done" /\ mp.error \in RenderErrors) =>
        /\ ret = "Err"
        /\ mp.item <= Len(input)
        /\ mp.cap <= Len(mp.caps)
        /\ book[mp.item] = input[mp.item]
        /\ ~HoldsDiagnostic(book, mp.error, mp.failed)

\* C22: MermaidPreprocessor::run clears generated/diagrams at the start of
\* every run whatever the directory was before (holding artifacts, empty,
\* not there yet) and then renders into an empty directory; of the errors
\* of the directory only a failed creation ends the run.  Stated for the
\* runs in which the file system refuses no removal, so that the prior
\* state of the directory is all that differs.
C22_ClearedWhateverPriorState == ~mp.refused => ClearedThenCreated

\* The same on a directory that was there when the run began.
C22_OnExistingDirectory ==
    (mp.prior # "absent" /\ ~mp.refused) => ClearedThenCreated

\* What the run does when the directory is not there yet: remove_dir_all
\* returns the error, the run ends with it, nothing is created or rendered.
C22_AbsentDirectoryEndsRun ==
    (mp.prior = "absent" /\ mp.pc # "remove" /\ mp.pc # "off") =>
        /\ mp.pc = "done"
        /\ ret = "Err"
        /\ mp.error = "remove"
        /\ ~mp.exists
        /\ mp.uuids = 0

====
